---- MODULE Spec2Model ----
(***************************************************************************)
(* The render loop of Pankarta-Software: the three App variants            *)
(* (challenge1WGPU.rs, challengecameramoving.rs,                           *)
(* instances_that_move_decent.rs) and the GameLogic of gameplay/play.rs.   *)
(*                                                                         *)
(* One iteration of `while app_state.is_running` is one tick.  The tick is *)
(* followed through its positions: the loop test, the acquire of           *)
(* App::render, the recorded pass, submit, present, the match arm on the   *)
(* result of render, and the update of the Playing arm.  The window        *)
(* system is the environment: it changes the drawable size and hands the   *)
(* update the events polled in that tick.                                  *)
(*                                                                         *)
(* Floating point values are kept as exact quantities in fixed units:      *)
(* times in milliseconds, lengths in thousandths, angles about Y in        *)
(* thousandths of a radian, matrices as the list of their factors.         *)
(***************************************************************************)
EXTENDS Integers, Sequences, FiniteSets, TLC

\* ---------------------------------------------------------------- bounds

\* Ticks of the main loop that are followed.
MaxTicks == 3

\* Events one `poll_iter()` of the event pump hands over at most.
MaxEvents == 2

\* Ticks of the instance set taken one after the other.
MaxSpinTicks == 60

\* Meshes of a model handed to a DrawModel call.
MaxMeshes == 3

\* Materials of such a model.
MaxMaterials == 2

\* ------------------------------------------------------ program constants

NUM_INSTANCES_PER_ROW == 10

\* INSTANCE_DISPLACEMENT = NUM_INSTANCES_PER_ROW * 0.5 on x and z, in thousandths.
INSTANCE_DISPLACEMENT == <<(NUM_INSTANCES_PER_ROW * 1000) \div 2, 0, (NUM_INSTANCES_PER_ROW * 1000) \div 2>>

\* const INDICES: 18 indices in the camera and instances variants.
INDICES_len == 18

\* GameLogic::new(&mut self, 5.0): the speed, in units per second.
speed == 5

\* Quaternion::from_angle_y(Rad(10.0) * delta_time): the factor of delta_time.
ROTATION_RATE == 10

\* model_rotation += Deg(2.0), once per tick.
MODEL_ROTATION_STEP == 2

\* Duration::from_secs(1), in milliseconds.
ONE_SECOND == 1000

\* ------------------------------------------------------------------ inputs

Variants == {"challenge1WGPU", "challengecameramoving", "instances_that_move_decent"}

None == "None"

\* Display modes SDL may report and sizes the drawable may take: [w, h].
Size(w, h) == [w |-> w, h |-> h]

DisplayModes == {Size(16, 9), Size(8, 6)}

\* Option<u32>: << >> is None, <<n>> is Some(n).
ExtWidths == {<< >>, <<8>>}

ExtHeights == {<< >>, <<6>>}

DrawableSizes == {Size(8, 6), Size(16, 9)}

\* Delta times a tick may measure, in milliseconds.
DeltaTimes == {0, 500, 1000}

\* The events the handlers tell apart; "Other" is any event of the `_` arm.
Events == {"Quit", "KeyDown_Escape", "KeyDown_Space",
           "KeyDown_W", "KeyUp_W", "KeyDown_A", "KeyUp_A",
           "KeyDown_S", "KeyUp_S", "KeyDown_D", "KeyUp_D", "Other"}

\* wgpu::SurfaceError
SurfaceErrors == {"Timeout", "Outdated", "Lost", "OutOfMemory"}

VARIABLES
    app,              \* which App the process runs
    pc,               \* position in App::update
    is_running,       \* app_state.is_running
    ticks,            \* iterations of the loop begun
    elapsed,          \* the delta times of the ticks begun, added up, in milliseconds
    current_display,  \* App.current_display, the display mode read at startup
    drawable,         \* the size of the window's drawable, owned by the window system
    config,           \* App.config (width, height)
    configuredFor,    \* the drawable size at the latest surface.configure
    depth_texture,    \* App.depth_texture: its size and which creation it is, or None
    camera,           \* App.camera / App.camera_staging.camera, or None
    model_rotation,   \* CameraStaging.model_rotation, in degrees
    camera_uniform,   \* App.camera_uniform.view_proj
    camera_buffer,    \* the contents of App.camera_buffer on the GPU
    instances,        \* App.instances
    instance_buffer,  \* the contents of App.instance_buffer on the GPU
    change_pipeline,  \* App.change_pipeline
    controller,       \* GameLogic.controller
    fps,              \* GameLogic.fps
    frame_count,      \* GameLogic.frame_count
    frame_timer,      \* GameLogic.frame_timer, in milliseconds
    fps_text,         \* GameLogic.fps_text.text
    delta_time,       \* the delta time of this tick, in milliseconds
    result,           \* what self.render() returned in this tick
    polled,           \* events the running poll_iter() has handed over
    polled_event,     \* `event` of the running `for`: the event handed over last
    ops,              \* the graphics calls made in this tick, in order
    log,              \* how many lines eprintln! wrote in this tick
    model,            \* the Model handed to a DrawModel call: meshes and materials
    call,             \* the DrawModel call under way: its name and its instance range
    mesh_index,       \* how many meshes `for mesh in &model.meshes` has been through
    draw_status       \* where the DrawModel call is: idle, running, returned, panicked

vars == <<app, pc, is_running, ticks, elapsed, current_display, drawable, config, configuredFor,
          depth_texture, camera, model_rotation, camera_uniform, camera_buffer,
          instances, instance_buffer, change_pipeline, controller,
          fps, frame_count, frame_timer, fps_text, delta_time, result, polled,
          polled_event, ops, log,
          model, call, mesh_index, draw_status>>

drawVars == <<model, call, mesh_index, draw_status>>
surfaceVars == <<current_display, config, configuredFor, depth_texture>>
cameraVars == <<camera, model_rotation, camera_uniform, camera_buffer>>
instanceVars == <<instances, instance_buffer>>
playVars == <<controller, fps, frame_count, frame_timer, fps_text>>

\* ----------------------------------------------------------------- helpers

Abs(x) == IF x < 0 THEN -x ELSE x

RECURSIVE GCD(_, _)
GCD(a, b) == IF b = 0 THEN a ELSE GCD(b, a % b)

\* `width as f32 / height as f32`: the quotient, kept as the reduced fraction.
AspectOf(c) ==
    LET g == GCD(c.w, c.h) IN <<c.w \div g, c.h \div g>>

\* Vector3::is_zero
is_zero(v) == v[1] = 0 /\ v[2] = 0 /\ v[3] = 0

\* InnerSpace::normalize: the direction of v, kept as its smallest integer
\* multiple; the zero vector has none (the components come out NaN).
normalize(v) ==
    IF is_zero(v) THEN <<"NaN", "NaN", "NaN">>
    ELSE LET g == GCD(GCD(Abs(v[1]), Abs(v[2])), Abs(v[3]))
         IN  <<v[1] \div g, v[2] \div g, v[3] \div g>>

\* Quaternion::from_axis_angle(axis, Deg(deg)). A quaternion is kept as the
\* product Ry(yrad) * R(axis, deg) * Ry(right): the turn about the axis, with
\* the turns about Y multiplied on from the left and from the right.
from_axis_angle(axis, deg) == [axis |-> axis, deg |-> deg, yrad |-> 0, right |-> 0]

\* Mutant: the angle is ROTATION_RATE at every tick, whatever its length.
from_angle_y_PerFrame(dt) == ROTATION_RATE

\* Mutant: the delta time is taken in whole seconds.
from_angle_y_WholeSeconds(dt) == ROTATION_RATE * ((dt \div ONE_SECOND) * ONE_SECOND)

\* Quaternion::from_angle_y(Rad(ROTATION_RATE) * delta_time): the angle about
\* Y in thousandths of a radian, delta_time being in milliseconds.
from_angle_y(dt) == ROTATION_RATE * dt

\* Mutant: current * amount, the increment multiplied on from the right.
mul_y_OnTheRight(amount, current) == [current EXCEPT !.right = @ + amount]

\* amount * current, amount being a rotation about Y: rotations about one
\* axis add their angles.
mul_y(amount, current) == [current EXCEPT !.yrad = @ + amount]

\* Instance::to_raw: translation(position) * rotation, as its two factors.
to_raw(instance) == [model |-> <<instance.position, instance.rotation>>]

\* instances.iter().map(Instance::to_raw).collect()
pack(insts) == [i \in 1 .. Len(insts) |-> to_raw(insts[i])]

\* Mutant: the axis is the normalized position whatever the position is.
grid_instance_NoGuard(x, z) ==
    LET position == <<x * 1000 - INSTANCE_DISPLACEMENT[1],
                      0 - INSTANCE_DISPLACEMENT[2],
                      z * 1000 - INSTANCE_DISPLACEMENT[3]>>
    IN  [position |-> position, rotation |-> from_axis_angle(normalize(position), 45)]

\* The closure of the instance generator for column x of row z.
grid_instance(x, z) ==
    LET position == <<x * 1000 - INSTANCE_DISPLACEMENT[1],
                      0 - INSTANCE_DISPLACEMENT[2],
                      z * 1000 - INSTANCE_DISPLACEMENT[3]>>
        rotation == IF is_zero(position)
                    THEN from_axis_angle(<<0, 0, 1>>, 0)
                    ELSE from_axis_angle(normalize(position), 45)
    IN  [position |-> position, rotation |-> rotation]

\* Mutant: column x after column x-1.
generate_instances_ColumnMajor ==
    [i \in 1 .. NUM_INSTANCES_PER_ROW * NUM_INSTANCES_PER_ROW |->
        grid_instance((i - 1) \div NUM_INSTANCES_PER_ROW, (i - 1) % NUM_INSTANCES_PER_ROW)]

\* (0..N).flat_map(|z| (0..N).map(|x| ...)).collect(): row z after row z-1.
generate_instances ==
    [i \in 1 .. NUM_INSTANCES_PER_ROW * NUM_INSTANCES_PER_ROW |->
        grid_instance((i - 1) % NUM_INSTANCES_PER_ROW, (i - 1) \div NUM_INSTANCES_PER_ROW)]

\* Texture::create_depth_texture(&device, &config, ..): a new texture of the
\* size of config; `made` tells one creation from another.
create_depth_texture(c, made) == [w |-> c.w, h |-> c.h, made |-> made]

\* Matrix4::identity()
identity == << >>

\* Mutant: proj * OPENGL_TO_WGPU_MATRIX * view.
build_view_projection_matrix_ProjFirst(cam) ==
    << <<"perspective", cam.fovy, cam.aspect, cam.znear, cam.zfar>>,
       <<"OPENGL_TO_WGPU_MATRIX">>,
       <<"look_at_rh", cam.eye, cam.target, cam.up>> >>

\* Camera::build_view_projection_matrix: OPENGL_TO_WGPU_MATRIX * proj * view.
build_view_projection_matrix(cam) ==
    << <<"OPENGL_TO_WGPU_MATRIX">>,
       <<"perspective", cam.fovy, cam.aspect, cam.znear, cam.zfar>>,
       <<"look_at_rh", cam.eye, cam.target, cam.up>> >>

\* CameraStaging::update_camera:
\* OPENGL_TO_WGPU_MATRIX * build_view_projection_matrix() * from_angle_z(model_rotation).
update_camera(cam, rotation) ==
    << <<"OPENGL_TO_WGPU_MATRIX">> >>
        \o build_view_projection_matrix(cam)
        \o << <<"from_angle_z", rotation>> >>

\* The Camera literal of App::new; the eye (0,1,2) looks at the origin from
\* the distance sqrt(5), kept as that distance and the turn about the target.
new_camera(c) ==
    [eye |-> [r |-> 2236, turn |-> 0], target |-> <<0, 0, 0>>, up |-> <<0, 1, 0>>,
     aspect |-> AspectOf(c), fovy |-> 45, znear |-> <<1, 10>>, zfar |-> 100]

has_camera(a) == a \in {"challengecameramoving", "instances_that_move_decent"}
has_depth(a) == a = "instances_that_move_decent"
has_instances(a) == a = "instances_that_move_decent"

\* One graphics call: its name and its arguments.
Op(name, args) == [op |-> name, args |-> args]

\* ------------------------------------------------------------------- Init

\* App::new followed by the prologue of App::update and GameLogic::new.
\* The window is built with (width, height), each the argument when given
\* and the display mode's otherwise; config is built from the same two.
InitApp ==
    /\ app \in Variants
    /\ current_display \in DisplayModes
    /\ \E ext_width \in ExtWidths, ext_height \in ExtHeights :
          LET width == IF ext_width = << >> THEN current_display.w ELSE ext_width[1]
              height == IF ext_height = << >> THEN current_display.h ELSE ext_height[1]
          IN  /\ drawable = Size(width, height)
              /\ config = Size(width, height)
    /\ configuredFor = drawable
    /\ depth_texture = IF has_depth(app) THEN create_depth_texture(config, 0) ELSE None
    /\ camera = IF has_camera(app) THEN new_camera(config) ELSE None
    /\ model_rotation = 0
    /\ camera_uniform = identity
    /\ camera_buffer = identity
    /\ instances = IF has_instances(app) THEN generate_instances ELSE << >>
    /\ instance_buffer = pack(instances)
    /\ change_pipeline = FALSE
    /\ controller = [forward |-> FALSE, backwards |-> FALSE, left |-> FALSE, right |-> FALSE]
    /\ fps = 0
    /\ frame_count = 0
    /\ frame_timer = 0
    /\ fps_text = <<"Framerate">>
    /\ is_running = TRUE
    /\ pc = "loop"
    /\ ticks = 0
    /\ elapsed = 0
    /\ delta_time = 0
    /\ result = None
    /\ polled = 0
    /\ polled_event = None
    /\ ops = << >>
    /\ log = 0

\* No DrawModel call is under way.
NoCall == [fn |-> "none", instances |-> <<0, 0>>]

\* The program as it starts; the loop makes no DrawModel call.
Init ==
    /\ InitApp
    /\ model = [meshes |-> << >>, materials |-> << >>]
    /\ call = NoCall
    /\ mesh_index = 0
    /\ draw_status = "idle"


\* ------------------------------------------------------------- GameLogic

\* Mutant: the arm of KeyUp A clears the flag of D.
handle_event_WrongFlag(st, event) ==
    CASE event = "KeyDown_Space"  -> st
      [] event = "KeyDown_W"      -> [st EXCEPT !.controller.forward = TRUE]
      [] event = "KeyUp_W"        -> [st EXCEPT !.controller.forward = FALSE]
      [] event = "KeyDown_A"      -> [st EXCEPT !.controller.left = TRUE]
      [] event = "KeyUp_A"        -> [st EXCEPT !.controller.right = FALSE]
      [] event = "KeyDown_S"      -> [st EXCEPT !.controller.backwards = TRUE]
      [] event = "KeyUp_S"        -> [st EXCEPT !.controller.backwards = FALSE]
      [] event = "KeyDown_D"      -> [st EXCEPT !.controller.right = TRUE]
      [] event = "KeyUp_D"        -> [st EXCEPT !.controller.right = FALSE]
      [] event = "KeyDown_Escape" -> [st EXCEPT !.is_running = FALSE]
      [] event = "Quit"           -> [st EXCEPT !.is_running = FALSE]
      [] OTHER                    -> st

\* GameLogic::event_handler: the match on one event of
\* `for event in event_pump.poll_iter()`, on [controller, is_running].
handle_event(st, event) ==
    CASE event = "KeyDown_Space"  -> st
      [] event = "KeyDown_W"      -> [st EXCEPT !.controller.forward = TRUE]
      [] event = "KeyUp_W"        -> [st EXCEPT !.controller.forward = FALSE]
      [] event = "KeyDown_A"      -> [st EXCEPT !.controller.left = TRUE]
      [] event = "KeyUp_A"        -> [st EXCEPT !.controller.left = FALSE]
      [] event = "KeyDown_S"      -> [st EXCEPT !.controller.backwards = TRUE]
      [] event = "KeyUp_S"        -> [st EXCEPT !.controller.backwards = FALSE]
      [] event = "KeyDown_D"      -> [st EXCEPT !.controller.right = TRUE]
      [] event = "KeyUp_D"        -> [st EXCEPT !.controller.right = FALSE]
      [] event = "KeyDown_Escape" -> [st EXCEPT !.is_running = FALSE]
      [] event = "Quit"           -> [st EXCEPT !.is_running = FALSE]
      [] OTHER                    -> st

\* Mutant: the rollover starts the timer again from nothing.
display_framerate_TimerReset(st, dt) ==
    LET count == st.frame_count + 1
        timer == st.frame_timer + dt
        rolled == timer >= ONE_SECOND
        new_fps == IF rolled THEN count ELSE st.fps
    IN  [fps |-> new_fps,
         frame_count |-> IF rolled THEN 0 ELSE count,
         frame_timer |-> IF rolled THEN 0 ELSE timer,
         fps_text |-> <<"FPS: ", new_fps>>]

\* GameLogic::display_framerate, on [fps, frame_count, frame_timer, fps_text].
display_framerate(st, dt) ==
    LET count == st.frame_count + 1
        timer == st.frame_timer + dt
        rolled == timer >= ONE_SECOND
        new_fps == IF rolled THEN count ELSE st.fps
    IN  [fps |-> new_fps,
         frame_count |-> IF rolled THEN 0 ELSE count,
         frame_timer |-> IF rolled THEN timer - ONE_SECOND ELSE timer,
         fps_text |-> <<"FPS: ", new_fps>>]

\* Mutant: forward moves the eye however near the target it is.
move_camera_NoGuard(cam, ctrl, dt) ==
    LET step == speed * dt
        towards == IF cam.eye.r > 0 THEN -1 ELSE 1
        r1 == IF ctrl.forward THEN cam.eye.r + towards * step ELSE cam.eye.r
        r2 == IF ctrl.backwards THEN r1 - towards * step ELSE r1
        turn == IF ctrl.left THEN cam.eye.turn - step
                ELSE IF ctrl.right THEN cam.eye.turn + step
                ELSE cam.eye.turn
    IN  [cam EXCEPT !.eye = [r |-> r2, turn |-> turn]]

\* The camera movement of GameLogic::update.  The eye is at distance |r| from
\* the target on the line of sight; forward_norm * speed * delta_time is a
\* step of speed * dt along it.  Left and right keep the distance and turn
\* the eye about the target; both start from the same `forward` and `right`,
\* so when both flags are set the assignment of the left arm is the one kept.
move_camera(cam, ctrl, dt) ==
    LET step == speed * dt
        forward_mag == Abs(cam.eye.r)
        towards == IF cam.eye.r > 0 THEN -1 ELSE 1
        r1 == IF ctrl.forward /\ forward_mag > speed * 1000
              THEN cam.eye.r + towards * step ELSE cam.eye.r
        r2 == IF ctrl.backwards THEN r1 - towards * step ELSE r1
        turn == IF ctrl.left THEN cam.eye.turn - step
                ELSE IF ctrl.right THEN cam.eye.turn + step
                ELSE cam.eye.turn
    IN  [cam EXCEPT !.eye = [r |-> r2, turn |-> turn]]

\* The match on one event of the poll at the end of the challenge1WGPU
\* loop, on [change_pipeline, is_running].
poll_event(st, event) ==
    CASE event = "KeyDown_Space"  -> [st EXCEPT !.change_pipeline = ~st.change_pipeline]
      [] event = "KeyDown_Escape" -> [st EXCEPT !.is_running = FALSE]
      [] event = "Quit"           -> [st EXCEPT !.is_running = FALSE]
      [] OTHER                    -> st

\* ------------------------------------------------------------ App::render

\* What surface.get_current_texture() may return.  Outdated is the answer
\* for a surface whose drawable no longer has the configured size; the other
\* errors may come at any acquire.
AcquireOutcomes ==
    {"Ok", "Timeout", "Lost", "OutOfMemory"}
        \cup (IF config # drawable THEN {"Outdated"} ELSE {})

\* Mutant: the draw of the instances variant covers one instance.
recorded_pass_OneInstance ==
    CASE app = "challenge1WGPU" ->
            << Op("begin_render_pass", <<None>>),
               Op("set_pipeline", <<IF change_pipeline THEN "challenge_render_pipeline"
                                                        ELSE "render_pipeline">>),
               Op("draw", <<3, 1>>) >>
      [] app = "challengecameramoving" ->
            << Op("begin_render_pass", <<None>>),
               Op("set_pipeline", <<"render_pipeline">>),
               Op("draw_indexed", <<INDICES_len, 1>>) >>
      [] app = "instances_that_move_decent" ->
            << Op("begin_render_pass", <<Size(depth_texture.w, depth_texture.h)>>),
               Op("set_pipeline", <<"render_pipeline">>),
               Op("draw_indexed", <<INDICES_len, 1>>) >>

\* Mutant: challenge1WGPU binds render_pipeline whatever the flag is.
recorded_pass_DefaultPipeline ==
    CASE app = "challenge1WGPU" ->
            << Op("begin_render_pass", <<None>>),
               Op("set_pipeline", <<"render_pipeline">>),
               Op("draw", <<3, 1>>) >>
      [] app = "challengecameramoving" ->
            << Op("begin_render_pass", <<None>>),
               Op("set_pipeline", <<"render_pipeline">>),
               Op("draw_indexed", <<INDICES_len, 1>>) >>
      [] app = "instances_that_move_decent" ->
            << Op("begin_render_pass", <<Size(depth_texture.w, depth_texture.h)>>),
               Op("set_pipeline", <<"render_pipeline">>),
               Op("draw_indexed", <<INDICES_len, Len(instances)>>) >>

\* The calls recorded between begin_render_pass and the end of its block.
recorded_pass ==
    CASE app = "challenge1WGPU" ->
            << Op("begin_render_pass", <<None>>),
               Op("set_pipeline", <<IF change_pipeline THEN "challenge_render_pipeline"
                                                        ELSE "render_pipeline">>),
               Op("draw", <<3, 1>>) >>
      [] app = "challengecameramoving" ->
            << Op("begin_render_pass", <<None>>),
               Op("set_pipeline", <<"render_pipeline">>),
               Op("draw_indexed", <<INDICES_len, 1>>) >>
      [] app = "instances_that_move_decent" ->
            << Op("begin_render_pass", <<Size(depth_texture.w, depth_texture.h)>>),
               Op("set_pipeline", <<"render_pipeline">>),
               Op("draw_indexed", <<INDICES_len, Len(instances)>>) >>

\* let output = self.surface.get_current_texture()?;
Acquire ==
    /\ pc = "render"
    /\ \E outcome \in AcquireOutcomes :
          /\ ops' = Append(ops, Op("get_current_texture", <<outcome>>))
          /\ IF outcome = "Ok"
             THEN pc' = "record" /\ result' = result
             ELSE pc' = "match" /\ result' = outcome
    /\ UNCHANGED <<drawVars, polled_event, app, is_running, ticks, elapsed, drawable, surfaceVars, cameraVars,
                   instanceVars, change_pipeline, playVars, delta_time, polled, log>>

\* Mutant: the frame is presented without its commands being submitted.
Record_SkipsSubmit ==
    /\ pc = "record"
    /\ ops' = ops \o recorded_pass
    /\ pc' = "present"
    /\ UNCHANGED <<drawVars, polled_event, app, is_running, ticks, elapsed, drawable, surfaceVars, cameraVars,
                   instanceVars, change_pipeline, playVars, delta_time, result, polled, log>>

\* create_view, create_command_encoder and the block of the render pass.
Record ==
    /\ pc = "record"
    /\ ops' = ops \o recorded_pass
    /\ pc' = "submit"
    /\ UNCHANGED <<drawVars, polled_event, app, is_running, ticks, elapsed, drawable, surfaceVars, cameraVars,
                   instanceVars, change_pipeline, playVars, delta_time, result, polled, log>>

\* self.queue.submit(std::iter::once(encoder.finish()));
Submit ==
    /\ pc = "submit"
    /\ ops' = Append(ops, Op("submit", << >>))
    /\ pc' = "present"
    /\ UNCHANGED <<drawVars, polled_event, app, is_running, ticks, elapsed, drawable, surfaceVars, cameraVars,
                   instanceVars, change_pipeline, playVars, delta_time, result, polled, log>>

\* output.present(); Ok(())
Present ==
    /\ pc = "present"
    /\ ops' = Append(ops, Op("present", << >>))
    /\ result' = "Ok"
    /\ pc' = "match"
    /\ UNCHANGED <<drawVars, polled_event, app, is_running, ticks, elapsed, drawable, surfaceVars, cameraVars,
                   instanceVars, change_pipeline, playVars, delta_time, polled, log>>

\* ------------------------------------------------------------ App::resize

\* Mutant: resize exchanges the width and the height config has.
resize_config_Transposed == Size(config.h, config.w)

\* config.width = current_display.w; config.height = current_display.h
resize_config == Size(current_display.w, current_display.h)

\* Mutant: the camera variant builds its camera anew from the new config.
resize_camera_Rebuilt(c) ==
    IF app = "challengecameramoving" THEN new_camera(c) ELSE camera

\* The camera after resize: the camera variant sets the aspect from the new
\* config, the other two leave the camera as it is.
resize_camera(c) ==
    IF app = "challengecameramoving" THEN [camera EXCEPT !.aspect = AspectOf(c)]
    ELSE camera

\* Mutant: resize keeps the depth texture it has.
resize_depth_Kept(c) == depth_texture

\* The depth texture after resize: the instances variant creates a new one
\* from the new config.
resize_depth(c) ==
    IF app = "instances_that_move_decent"
    THEN create_depth_texture(c, depth_texture.made + 1)
    ELSE depth_texture

\* The graphics calls of resize.
resize_ops(c) ==
    << Op("configure", <<c>>) >>
        \o (IF app = "instances_that_move_decent"
            THEN << Op("create_depth_texture", <<c>>) >> ELSE << >>)

resize ==
    /\ config' = resize_config
    /\ configuredFor' = drawable
    /\ depth_texture' = resize_depth(resize_config)
    /\ camera' = resize_camera(resize_config)
    /\ ops' = ops \o resize_ops(resize_config)
    /\ UNCHANGED <<current_display, log>>

\* Mutant: Outdated falls into the arm that only reports the error.
Match_OutdatedIgnored ==
    /\ pc = "match"
    /\ CASE result = "Ok" -> UNCHANGED <<surfaceVars, camera, ops, log>>
         [] OTHER         -> /\ log' = log + 1
                             /\ UNCHANGED <<surfaceVars, camera, ops>>
    /\ pc' = "update"
    /\ UNCHANGED <<drawVars, polled_event, app, is_running, ticks, elapsed, drawable, model_rotation, camera_uniform,
                   camera_buffer, instanceVars, change_pipeline, playVars,
                   delta_time, result, polled>>

\* Mutant: every error of render is answered with resize.
Match_ResizeOnAnyError ==
    /\ pc = "match"
    /\ CASE result = "Ok" -> UNCHANGED <<surfaceVars, camera, ops, log>>
         [] OTHER         -> resize
    /\ pc' = "update"
    /\ UNCHANGED <<drawVars, polled_event, app, is_running, ticks, elapsed, drawable, model_rotation, camera_uniform,
                   camera_buffer, instanceVars, change_pipeline, playVars,
                   delta_time, result, polled>>

\* The arms of `match self.render()`.
Match ==
    /\ pc = "match"
    /\ CASE result = "Ok"       -> UNCHANGED <<surfaceVars, camera, ops, log>>
         [] result = "Outdated" -> resize
         [] OTHER               -> /\ log' = log + 1
                                   /\ UNCHANGED <<surfaceVars, camera, ops>>
    /\ pc' = "update"
    /\ UNCHANGED <<drawVars, polled_event, app, is_running, ticks, elapsed, drawable, model_rotation, camera_uniform,
                   camera_buffer, instanceVars, change_pipeline, playVars,
                   delta_time, result, polled>>


\* ------------------------------------------------------------ App::update

\* Mutant: the body of the loop is entered without the flag being tested.
LoopCheck_Unconditional(dts) ==
    /\ pc = "loop"
    /\ ticks < MaxTicks
    /\ ticks' = ticks + 1
    /\ pc' = "render"
    /\ \E dt \in dts : delta_time' = dt /\ elapsed' = elapsed + dt
    /\ result' = None
    /\ ops' = << >>
    /\ log' = 0
    /\ UNCHANGED <<drawVars, polled_event, app, is_running, drawable, surfaceVars, cameraVars, instanceVars,
                   change_pipeline, playVars, polled>>

\* `while app_state.is_running`, and the time since the previous tick began.
\* App::delta_time (instances variant) and GameLogic::delta_time both read
\* the clock once per tick, so both measure this interval.
LoopCheck(dts) ==
    /\ pc = "loop"
    /\ IF is_running
       THEN /\ ticks < MaxTicks
            /\ ticks' = ticks + 1
            /\ pc' = "render"
            /\ \E dt \in dts : delta_time' = dt /\ elapsed' = elapsed + dt
            /\ result' = None
            /\ ops' = << >>
            /\ log' = 0
       ELSE /\ pc' = "done"
            /\ UNCHANGED <<ticks, elapsed, delta_time, result, ops, log>>
    /\ UNCHANGED <<drawVars, polled_event, app, is_running, drawable, surfaceVars, cameraVars, instanceVars,
                   change_pipeline, playVars, polled>>

\* Mutant: the instance at the origin is passed over.
rotate_instances_NonZeroOnly(insts, dt) ==
    [i \in 1 .. Len(insts) |->
        IF is_zero(insts[i].position) THEN insts[i]
        ELSE [insts[i] EXCEPT !.rotation = mul_y(from_angle_y(dt), insts[i].rotation)]]

\* `for instance in &mut self.instances { instance.rotation = amount * current }`
rotate_instances(insts, dt) ==
    [i \in 1 .. Len(insts) |->
        [insts[i] EXCEPT !.rotation = mul_y(from_angle_y(dt), insts[i].rotation)]]

\* Mutant: the data written is packed from the instances before the rotation.
upload_instances_BeforeRotation(insts) == pack(instances)

\* The instance data written to instance_buffer after the rotation.
upload_instances(insts) == pack(insts)

\* The matrix written to camera_buffer in the tick, from the camera as it is
\* when the write is made.
upload_camera(cam, rotation) ==
    IF app = "challengecameramoving" THEN update_camera(cam, rotation)
    ELSE build_view_projection_matrix(cam)

\* GameLogic::update up to its call of event_handler: display_framerate and
\* the camera movement with the flags as the earlier ticks left them.
play_update ==
    /\ LET p == display_framerate([fps |-> fps, frame_count |-> frame_count,
                                   frame_timer |-> frame_timer, fps_text |-> fps_text],
                                  delta_time)
       IN  /\ fps' = p.fps
           /\ frame_count' = p.frame_count
           /\ frame_timer' = p.frame_timer
           /\ fps_text' = p.fps_text
    /\ camera' = IF has_camera(app) THEN move_camera(camera, controller, delta_time)
                 ELSE camera

\* The Playing arm up to the first poll of the event pump.
\* challenge1WGPU and challengecameramoving call play.update first;
\* instances_that_move_decent turns the instances, writes the instance
\* buffer, rebuilds and writes the camera uniform, and calls play.update last.
Update ==
    /\ pc = "update"
    /\ IF app = "instances_that_move_decent"
       THEN /\ instances' = rotate_instances(instances, delta_time)
            /\ instance_buffer' = upload_instances(instances')
            /\ camera_uniform' = upload_camera(camera, model_rotation)
            /\ camera_buffer' = camera_uniform'
            /\ ops' = ops \o << Op("write_buffer", <<"instance_buffer">>),
                                Op("write_buffer", <<"camera_buffer">>) >>
       ELSE UNCHANGED <<instanceVars, camera_uniform, camera_buffer, ops>>
    /\ play_update
    /\ polled' = 0
    /\ pc' = "events"
    /\ UNCHANGED <<drawVars, polled_event, app, is_running, ticks, elapsed, drawable, surfaceVars, model_rotation,
                   change_pipeline, controller, delta_time, result, log>>

\* poll_iter() hands over one more event and the body of the `for` runs on
\* it: in GameLogic::event_handler (pc = "events"), or in the poll at the end
\* of the challenge1WGPU loop (pc = "poll").
HandleEvent(events) ==
    /\ pc \in {"events", "poll"}
    /\ polled < MaxEvents
    /\ polled' = polled + 1
    /\ \E event \in events :
          /\ polled_event' = event
          /\ IF pc = "events"
             THEN LET st == handle_event([controller |-> controller,
                                          is_running |-> is_running], event)
                  IN  /\ controller' = st.controller
                      /\ is_running' = st.is_running
                      /\ UNCHANGED change_pipeline
             ELSE LET st == poll_event([change_pipeline |-> change_pipeline,
                                        is_running |-> is_running], event)
                  IN  /\ change_pipeline' = st.change_pipeline
                      /\ is_running' = st.is_running
                      /\ UNCHANGED controller
    /\ UNCHANGED <<drawVars, app, pc, ticks, elapsed, drawable, surfaceVars, cameraVars, instanceVars,
                   fps, frame_count, frame_timer, fps_text, delta_time, result, ops, log>>

\* The rest of the Playing arm of challengecameramoving, after play.update:
\* the model rotation advanced, update_camera, the camera buffer written.
rig_update ==
    /\ model_rotation' = model_rotation + MODEL_ROTATION_STEP
    /\ camera_uniform' = upload_camera(camera, model_rotation')
    /\ camera_buffer' = camera_uniform'
    /\ ops' = Append(ops, Op("write_buffer", <<"camera_buffer">>))

\* poll_iter() has no more events: the `for` ends and the body of the loop
\* runs to its end, or, in challenge1WGPU, to its own poll.
EndPoll ==
    /\ pc \in {"events", "poll"}
    /\ pc' = IF pc = "events" /\ app = "challenge1WGPU" THEN "poll" ELSE "loop"
    /\ polled' = 0
    /\ polled_event' = None
    /\ IF pc = "events" /\ app = "challengecameramoving"
       THEN rig_update
       ELSE UNCHANGED <<model_rotation, camera_uniform, camera_buffer, ops>>
    /\ UNCHANGED <<drawVars, app, is_running, ticks, elapsed, drawable, surfaceVars, camera, instanceVars,
                   change_pipeline, playVars, delta_time, result, log>>

\* -------------------------------------------------------------- DrawModel

\* The sequences over S of length n at most.
SeqsUpTo(S, n) == UNION {[1 .. k -> S] : k \in 0 .. n}

\* Mesh: the name stands for the vertex buffer and the index buffer of the
\* mesh; material is the index into Model.materials, counted from 0.
Meshes ==
    {[name |-> n, num_elements |-> IF n = "a" THEN 3 ELSE 6, material |-> m] :
        n \in {"a", "b"}, m \in 0 .. MaxMaterials}

\* Model.materials with k materials, each with a bind group of its own.
Materials(k) == [i \in 1 .. k |-> [bind_group |-> <<"material", i - 1>>]]

\* Model
Models ==
    {[meshes |-> ms, materials |-> Materials(k)] :
        ms \in SeqsUpTo(Meshes, MaxMeshes), k \in 0 .. MaxMaterials}

\* The `instances: Range<u32>` of a call, as <<start, end>>.
InstanceRanges == {<<0, 1>>, <<0, 100>>}

\* Mutant: the material is bound at group 1 and the camera at group 0.
draw_mesh_instanced_GroupsSwapped(mesh, material, range, camera_bind_group) ==
    << Op("set_vertex_buffer", <<0, mesh.name>>),
       Op("set_index_buffer", <<mesh.name, "Uint32">>),
       Op("set_bind_group", <<1, material.bind_group>>),
       Op("set_bind_group", <<0, camera_bind_group>>),
       Op("draw_indexed", <<mesh.num_elements, range>>) >>

\* DrawModel::draw_mesh_instanced: the calls it makes on the render pass.
\* The camera bind group is written as a pair like a material's.
draw_mesh_instanced(mesh, material, range, camera_bind_group) ==
    << Op("set_vertex_buffer", <<0, mesh.name>>),
       Op("set_index_buffer", <<mesh.name, "Uint32">>),
       Op("set_bind_group", <<0, material.bind_group>>),
       Op("set_bind_group", <<1, camera_bind_group>>),
       Op("draw_indexed", <<mesh.num_elements, range>>) >>

\* DrawModel::draw_mesh
draw_mesh(mesh, material, camera_bind_group) ==
    draw_mesh_instanced(mesh, material, <<0, 1>>, camera_bind_group)

\* The camera bind group the caller passes.
CameraBindGroup == <<"camera", 0>>

appVars == <<polled_event, app, pc, is_running, ticks, elapsed, drawable, surfaceVars, cameraVars,
             instanceVars, change_pipeline, playVars, delta_time, result, polled, log>>

\* A caller with a render pass calls draw_model or draw_model_instanced;
\* draw_model passes 0..1 on to draw_model_instanced.
DrawCall ==
    /\ draw_status = "idle"
    /\ \E fn \in {"draw_model", "draw_model_instanced"}, r \in InstanceRanges :
          call' = [fn |-> fn, instances |-> IF fn = "draw_model" THEN <<0, 1>> ELSE r]
    /\ draw_status' = "running"
    /\ mesh_index' = 0
    /\ UNCHANGED <<model, ops, appVars>>

\* Mutant: a material index past the end takes the last material.
DrawNextMesh_Clamped ==
    /\ draw_status = "running"
    /\ mesh_index < Len(model.meshes)
    /\ LET mesh == model.meshes[mesh_index + 1]
       IN  IF Len(model.materials) > 0
           THEN LET m == IF mesh.material < Len(model.materials) THEN mesh.material
                         ELSE Len(model.materials) - 1
                IN  /\ ops' = ops \o draw_mesh_instanced(mesh, model.materials[m + 1],
                                                         call.instances, CameraBindGroup)
                    /\ mesh_index' = mesh_index + 1
                    /\ UNCHANGED draw_status
           ELSE /\ draw_status' = "panicked"
                /\ UNCHANGED <<ops, mesh_index>>
    /\ UNCHANGED <<model, call, appVars>>

\* One turn of `for mesh in &model.meshes`: `&model.materials[mesh.material]`
\* panics when the index is not below the length, otherwise
\* draw_mesh_instanced runs with that material.
DrawNextMesh ==
    /\ draw_status = "running"
    /\ mesh_index < Len(model.meshes)
    /\ LET mesh == model.meshes[mesh_index + 1]
       IN  IF mesh.material < Len(model.materials)
           THEN /\ ops' = ops \o draw_mesh_instanced(mesh, model.materials[mesh.material + 1],
                                                     call.instances, CameraBindGroup)
                /\ mesh_index' = mesh_index + 1
                /\ UNCHANGED draw_status
           ELSE /\ draw_status' = "panicked"
                /\ UNCHANGED <<ops, mesh_index>>
    /\ UNCHANGED <<model, call, appVars>>

\* The `for` has been through every mesh and the call returns.
DrawReturn ==
    /\ draw_status = "running"
    /\ mesh_index = Len(model.meshes)
    /\ draw_status' = "returned"
    /\ UNCHANGED <<model, call, mesh_index, ops, appVars>>

\* ------------------------------------------------------------ environment

\* The window system gives the drawable another size.
DrawableChanged(sizes) ==
    /\ pc # "done"
    /\ drawable' \in sizes \ {drawable}
    /\ UNCHANGED <<drawVars, polled_event, app, pc, is_running, ticks, elapsed, surfaceVars, cameraVars, instanceVars,
                   change_pipeline, playVars, delta_time, result, polled, ops, log>>

\* ---------------------------------------------------------- specifications

\* One step of the program or of the window system, the inputs drawn from
\* env: the delta times, the events and the drawable sizes.
Next(env) ==
    \/ LoopCheck(env.dts)
    \/ Acquire
    \/ Record
    \/ Submit
    \/ Present
    \/ Match
    \/ Update
    \/ HandleEvent(env.events)
    \/ EndPoll
    \/ DrawableChanged(env.drawables)

\* Every input of the model.
EnvAll == [dts |-> DeltaTimes, events |-> Events, drawables |-> DrawableSizes]

Spec == Init /\ [][Next(EnvAll)]_vars

\* The inputs of the checks of the render loop: one delta time, the drawable
\* sizes, and of the keys the ones that stop the loop, Space, and one
\* movement key pressed and released.
EnvLoop == [dts |-> {500},
            events |-> {"Quit", "KeyDown_Escape", "KeyDown_Space",
                        "KeyDown_W", "KeyUp_W", "Other"},
            drawables |-> DrawableSizes]

SpecLoop == Init /\ [][Next(EnvLoop)]_vars

\* The loop with ticks of no length, of half a second and of a second, and a
\* poll that hands over a quit request or nothing, in a window that may shrink.
EnvTick == [dts |-> DeltaTimes, events |-> {"Quit"}, drawables |-> {Size(8, 6)}]

SpecTick == Init /\ [][Next(EnvTick)]_vars

\* The loop with ticks of half a second, a poll that hands over the S key
\* going down or coming up or a quit request, and a window that changes size.
EnvCamera == [dts |-> {500}, events |-> {"KeyDown_S", "KeyUp_S", "Quit"},
              drawables |-> DrawableSizes]

SpecCamera == Init /\ [][Next(EnvCamera)]_vars

\* The loop with a poll that hands over the Space key going down or a quit
\* request.
EnvSpace == [dts |-> {500}, events |-> {"KeyDown_Space", "Quit"}, drawables |-> DrawableSizes]

SpecSpace == Init /\ [][Next(EnvSpace)]_vars

\* A DrawModel call on a fresh render pass, for every model within the
\* bounds; the program around it stands still.
InitDraw ==
    /\ InitApp
    /\ app = "challenge1WGPU"
    /\ current_display = Size(16, 9)
    /\ drawable = current_display
    /\ model \in Models
    /\ call = NoCall
    /\ mesh_index = 0
    /\ draw_status = "idle"

NextDraw == DrawCall \/ DrawNextMesh \/ DrawReturn

SpecDraw == InitDraw /\ [][NextDraw]_vars

\* The loop with ticks of half a second, of a second and of two seconds
\* and a half (the program was held up), and a poll that hands over a quit
\* request or nothing.
EnvFps == [dts |-> {500, 1000, 2500}, events |-> {"Quit"}, drawables |-> {Size(8, 6)}]

SpecFps == Init /\ [][Next(EnvFps)]_vars

\* The loop with ticks of half a second and a poll that hands over the four
\* movement keys going down and coming up, or a quit request.
EnvKeys == [dts |-> {500},
            events |-> {"KeyDown_W", "KeyUp_W", "KeyDown_A", "KeyUp_A",
                        "KeyDown_S", "KeyUp_S", "KeyDown_D", "KeyUp_D", "Quit"},
            drawables |-> {Size(8, 6)}]

\* challenge1WGPU in a window of the size of a 16 x 9 display: the variant
\* whose state the flags do not feed into, so that the flags are all that
\* the key events change.
InitKeys ==
    /\ Init
    /\ app = "challenge1WGPU"
    /\ current_display = Size(16, 9)
    /\ drawable = current_display

SpecKeys == InitKeys /\ [][Next(EnvKeys)]_vars

\* challengecameramoving in a window of the size of a 16 x 9 display.
InitMove ==
    /\ Init
    /\ app = "challengecameramoving"
    /\ current_display = Size(16, 9)
    /\ drawable = current_display

\* The loop with ticks of three tenths of a second and of a second, and a
\* poll that hands over W or S going down or coming up, or a quit request.
EnvMove == [dts |-> {300, 1000},
            events |-> {"KeyDown_W", "KeyUp_W", "KeyDown_S", "KeyUp_S", "Quit"},
            drawables |-> {Size(8, 6)}]

SpecMove == InitMove /\ [][Next(EnvMove)]_vars

\* The tick of the instance set taken alone: the delta time is measured, the
\* instances are turned and the instance data is written to its buffer.
Spin(dts) ==
    /\ has_instances(app)
    /\ pc = "loop"
    /\ ticks < MaxSpinTicks
    /\ ticks' = ticks + 1
    /\ \E dt \in dts :
          /\ delta_time' = dt
          /\ elapsed' = elapsed + dt
          /\ instances' = rotate_instances(instances, dt)
    /\ instance_buffer' = upload_instances(instances')
    /\ UNCHANGED <<drawVars, polled_event, app, pc, is_running, drawable, surfaceVars, cameraVars, change_pipeline,
                   playVars, result, polled, ops, log>>

\* A sixtieth of a second, to the millisecond below and above.
SixtiethOfSecond == {ONE_SECOND \div 60, ONE_SECOND \div 60 + 1}

InitSpin == Init /\ has_instances(app)

SpecSpin == InitSpin /\ [][Spin(SixtiethOfSecond)]_vars

\* ------------------------------------------------- the frame, as observed

\* The calls that draw, submit or present a frame.
FrameOps == {"begin_render_pass", "set_pipeline", "draw", "draw_indexed", "submit", "present"}

\* The names of the calls of this tick that belong to the frame's life cycle.
FrameSteps ==
    LET step(o) == o.op \in {"get_current_texture", "begin_render_pass", "draw",
                             "draw_indexed", "submit", "present"}
        steps == SelectSeq(ops, step)
    IN  [i \in 1 .. Len(steps) |-> steps[i].op]

\* The life cycle of a frame whose acquire succeeded.
FrameCycle ==
    <<"get_current_texture", "begin_render_pass",
      IF app = "challenge1WGPU" THEN "draw" ELSE "draw_indexed", "submit", "present">>

IsPrefix(a, b) == Len(a) <= Len(b) /\ \A i \in 1 .. Len(a) : a[i] = b[i]

OpCount(name) == Cardinality({i \in 1 .. Len(ops) : ops[i].op = name})

\* The match on the result of render has run in this tick.
Matched == pc \in {"update", "events", "poll", "loop", "done"}

\* --------------------------------------------------------------- C1 .. C10

\* C1: in a tick whose acquire fails with Outdated nothing is drawn,
\* submitted or presented and the acquire is made once; once the match arm
\* has run, the surface has been configured with the new config and, where
\* there is a depth texture, a new one was created after it; and the loop,
\* still running, goes on to the acquire of the next tick.
C1_OutdatedSkipsFrameAndReconfigures ==
    /\ [](result = "Outdated" =>
            /\ \A i \in 1 .. Len(ops) : ops[i].op \notin FrameOps
            /\ OpCount("get_current_texture") = 1
            /\ Matched =>
                  \E i \in 1 .. Len(ops) :
                      /\ ops[i].op = "configure"
                      /\ ops[i].args = <<config>>
                      /\ has_depth(app) =>
                            /\ \E j \in i + 1 .. Len(ops) :
                                   /\ ops[j].op = "create_depth_texture"
                                   /\ ops[j].args = <<config>>
                            /\ Size(depth_texture.w, depth_texture.h) = config)
    /\ [][(result = "Outdated" /\ pc = "loop" /\ is_running /\ pc' # pc)
              => pc' = "render"]_vars
    /\ [][(result = "Outdated" /\ pc = "match" /\ pc' # pc /\ has_depth(app))
              => depth_texture'.made = depth_texture.made + 1]_vars

\* An Outdated tick is over, the depth texture is a new one, and the loop is
\* at the acquire of the next tick.
C1_Witness ==
    /\ has_depth(app)
    /\ depth_texture.made > 0
    /\ pc = "render"
    /\ ticks > 1

\* C2 (as claimed): once an acquire has failed with Lost, the loop does not
\* go on to another acquire.
C2_SurfaceLostEndsLoop ==
    [][result = "Lost" => pc' # "render"]_vars

\* C3: in a tick whose acquire fails with Timeout nothing is drawn, submitted
\* or presented and nothing is reconfigured; the match arm leaves the config,
\* the depth texture and the running flag as they are, the flag being true;
\* and the loop, still running, goes on to the acquire of the next tick.
C3_TimeoutSkipsFrameAndGoesOn ==
    /\ [](result = "Timeout" =>
            /\ \A i \in 1 .. Len(ops) :
                   ops[i].op \notin FrameOps \cup {"configure", "create_depth_texture"}
            /\ OpCount("get_current_texture") = 1
            /\ pc \in {"match", "update"} => is_running)
    /\ [][(result = "Timeout" /\ pc = "match")
              => /\ config' = config
                 /\ depth_texture' = depth_texture
                 /\ is_running' = is_running
                 /\ pc' \in {"match", "update"}]_vars
    /\ [][(result = "Timeout" /\ pc = "loop" /\ is_running /\ pc' # pc)
              => pc' = "render"]_vars

\* A tick whose acquire timed out is over and the loop can begin another.
C3_Witness ==
    /\ result = "Timeout"
    /\ pc = "loop"
    /\ is_running
    /\ ticks < MaxTicks

\* C4: the calls of a frame are always a beginning of acquire, begin pass,
\* draw, submit, present, each once and in that order; a tick whose acquire
\* succeeded has made them all by the time render returns, and none after.
C4_FrameCycleInOrder ==
    /\ IsPrefix(FrameSteps, FrameCycle)
    /\ (Len(ops) > 0 /\ ops[1] = Op("get_current_texture", <<"Ok">>) /\ Matched)
          => FrameSteps = FrameCycle
    /\ result = "Ok" => FrameSteps = FrameCycle
    /\ pc = "record" => FrameSteps = <<"get_current_texture">>
    /\ pc = "submit" => Len(FrameSteps) = 3
    /\ pc = "present" => Len(FrameSteps) = 4

\* A frame was presented and its tick is over.
C4_Witness ==
    /\ result = "Ok"
    /\ pc = "loop"
    /\ OpCount("present") = 1

\* C5 (as claimed): at every acquire the camera's aspect is that of the
\* config and the depth texture has the size of the config.
C5_ResizeFullyAppliedAtAcquire ==
    (pc = "render" /\ has_camera(app)) =>
        /\ camera.aspect = AspectOf(config)
        /\ has_depth(app) => Size(depth_texture.w, depth_texture.h) = config

\* C6 (as claimed): the config has the size the drawable had when the
\* surface was last configured, at construction or by a resize.
C6_ConfigIsDrawableSize ==
    config = configuredFor

\* C7: the depth texture always has the size of the config, every render
\* pass attaches a depth view of that size, and a step that changes the
\* config creates a new depth texture.
C7_DepthMatchesConfig ==
    /\ [](has_depth(app) =>
            /\ Size(depth_texture.w, depth_texture.h) = config
            /\ \A i \in 1 .. Len(ops) :
                   ops[i].op = "begin_render_pass" => ops[i].args = <<config>>)
    /\ [][(has_depth(app) /\ config' # config)
              => depth_texture'.made > depth_texture.made]_vars

\* A pass is recorded with a depth texture made by a resize that changed the
\* size of the config.
C7_Witness ==
    /\ has_depth(app)
    /\ depth_texture.made > 0
    /\ pc = "submit"
    /\ config # drawable
    /\ ticks > 1

\* C8: whenever a draw is recorded or submitted, the instance buffer holds
\* the packed instances as they are, in index order.
C8_InstanceBufferFreshAtDraw ==
    (has_instances(app) /\ pc \in {"render", "record", "submit", "present"}) =>
        /\ Len(instance_buffer) = Len(instances)
        /\ \A i \in 1 .. Len(instances) : instance_buffer[i] = to_raw(instances[i])

\* A draw is about to be recorded after the instances were turned.
C8_Witness ==
    /\ has_instances(app)
    /\ pc = "record"
    /\ instances[1].rotation.yrad > 0

\* C9: the instances stay as many as were generated, the instance buffer
\* holds as many matrices, and a frame makes one draw_indexed over all the
\* indices and all the instances.
C9_OneDrawOverAllInstances ==
    has_instances(app) =>
        /\ Len(instances) = NUM_INSTANCES_PER_ROW * NUM_INSTANCES_PER_ROW
        /\ Len(instance_buffer) = Len(instances)
        /\ OpCount("draw") = 0
        /\ OpCount("draw_indexed") <= 1
        /\ \A i \in 1 .. Len(ops) :
               ops[i].op = "draw_indexed" => ops[i].args = <<INDICES_len, Len(instances)>>
        /\ result = "Ok" => OpCount("draw_indexed") = 1

\* A frame was drawn after a resize and a tick that turned the instances.
C9_Witness ==
    /\ has_instances(app)
    /\ result = "Ok"
    /\ depth_texture.made > 0
    /\ instances[1].rotation.yrad > 0

\* C10: the acquire of a tick is reached only with the flag true; with the
\* flag false the loop is in or past the polls of the tick in which it fell,
\* the loop test then leaves the loop, and the flag does not become true again.
C10_RunningFlagStopsLoop ==
    /\ [](pc \in {"render", "record", "submit", "present", "match", "update"} => is_running)
    /\ [](~is_running => pc \in {"events", "poll", "loop", "done"})
    /\ [][~is_running => ~is_running']_vars
    /\ [][(~is_running /\ pc = "loop" /\ pc' # pc) => pc' = "done"]_vars
    /\ [][~is_running => (\A i \in 1 .. Len(ops') :
                              i > Len(ops) => ops'[i].op \notin FrameOps \cup {"get_current_texture"})]_vars
    /\ [][pc = "done" => pc' = "done"]_vars

\* The flag fell and the loop was left.
C10_Witness ==
    /\ ~is_running
    /\ pc = "done"
    /\ ticks > 0

\* ------------------------------------------------------- instance rotation

\* The step of a tick in which the instances variant rotates and uploads its
\* instances.
TickStep == has_instances(app) /\ pc = "update" /\ pc' = "events"

\* Rad::from(Deg(d)): d * PI / 180, both in thousandths.
DegToRad(mdeg) == (mdeg * 31416) \div 1800000

C12_ZeroDeltaTimeIsNoOp ==
    [][(TickStep /\ delta_time = 0) =>
          /\ instances' = instances
          /\ pack(instances') = pack(instances)
          /\ instance_buffer' = instance_buffer]_vars

\* A tick of no length came after a tick of half a second, and the turn of
\* the first tick is what the instances still have.
C12_Witness ==
    /\ has_instances(app)
    /\ pc = "events"
    /\ ticks = 2
    /\ delta_time = 0
    /\ elapsed = 500
    /\ \A i \in 1 .. Len(instances) : instances[i].rotation.yrad = 5000
    /\ instance_buffer = pack(instances)

\* Has the tick under way already turned the instances?
Rotated == pc \in {"events", "poll", "loop", "done"}

\* C13: the angle the instances have turned about Y depends on the delta
\* times only through their sum: it is ROTATION_RATE times the time elapsed
\* over the ticks that have turned them, however many those ticks are, so
\* two ticks of dt / 2 turn them as far as one tick of dt.
C13_AngleIsRateTimesElapsed ==
    has_instances(app) =>
        \A i \in 1 .. Len(instances) :
            instances[i].rotation.yrad =
                ROTATION_RATE * (IF Rotated THEN elapsed ELSE elapsed - delta_time)

\* Two ticks of half a second have turned the instances by the ten radians
\* of one tick of a second.
C13_Witness ==
    /\ has_instances(app)
    /\ pc = "events"
    /\ ticks = 2
    /\ delta_time = 500
    /\ elapsed = 1000
    /\ \A i \in 1 .. Len(instances) : instances[i].rotation.yrad = from_angle_y(1000)

At(x, z) == instances[z * NUM_INSTANCES_PER_ROW + x + 1]

\* C15: the grid has N * N instances, a hundred for N = 10, in row-major
\* order: the instance at index z * N + x stands at (x, 0, z) less
\* (N / 2, 0, N / 2), in every run and as long as the program runs.
C15_GridIsRowMajorAndCentred ==
    has_instances(app) =>
        /\ Len(instances) = NUM_INSTANCES_PER_ROW * NUM_INSTANCES_PER_ROW
        /\ Len(instances) = 100
        /\ Len(instance_buffer) = Len(instances)
        /\ \A z \in 0 .. NUM_INSTANCES_PER_ROW - 1, x \in 0 .. NUM_INSTANCES_PER_ROW - 1 :
              /\ At(x, z).position = <<1000 * x - 500 * NUM_INSTANCES_PER_ROW,
                                       0,
                                       1000 * z - 500 * NUM_INSTANCES_PER_ROW>>
              /\ instance_buffer[z * NUM_INSTANCES_PER_ROW + x + 1].model[1] = At(x, z).position

\* The grid as the second tick draws it: the first row runs along x.
C15_Witness ==
    /\ has_instances(app)
    /\ pc = "record"
    /\ ticks = 2
    /\ instances[1].position = <<-5000, 0, -5000>>
    /\ instances[2].position = <<-4000, 0, -5000>>
    /\ instances[11].position = <<-5000, 0, -4000>>
    /\ instances[100].position = <<4000, 0, 4000>>

Cross(u, v) == <<u[2] * v[3] - u[3] * v[2], u[3] * v[1] - u[1] * v[3], u[1] * v[2] - u[2] * v[1]>>

Dot(u, v) == u[1] * v[1] + u[2] * v[2] + u[3] * v[3]

\* C16: the rotation an instance is generated with is the turn by no angle
\* if and only if the instance stands at the origin, and is otherwise the
\* turn by 45 degrees about the direction of its own position; of the
\* hundred instances only the one at x = 5, z = 5 (index 55 counted from 0)
\* stands at the origin, and no axis is the normalized zero vector.
C16_IdentityRotationOnlyAtOrigin ==
    has_instances(app) =>
        /\ \A i \in 1 .. Len(instances) :
              LET p == instances[i].position
                  r == instances[i].rotation
              IN  /\ is_zero(p) <=> r.deg = 0
                  /\ is_zero(p) <=> i = 55 + 1
                  /\ \A j \in 1 .. 3 : r.axis[j] \in Int
                  /\ r.right = 0
                  /\ ticks = 0 => r.yrad = 0
                  /\ is_zero(p) => r.axis = <<0, 0, 1>>
                  /\ ~is_zero(p) =>
                        /\ r.deg = 45
                        /\ GCD(GCD(Abs(r.axis[1]), Abs(r.axis[2])), Abs(r.axis[3])) = 1
                        /\ Cross(p, r.axis) = <<0, 0, 0>>
                        /\ Dot(p, r.axis) > 0
        /\ At(5, 5).position = <<0, 0, 0>>

\* The grid as generated: the instance at the origin unturned, its
\* neighbours turned about their positions.
C16_Witness ==
    /\ has_instances(app)
    /\ ticks = 0
    /\ At(5, 5).rotation = [axis |-> <<0, 0, 1>>, deg |-> 0, yrad |-> 0, right |-> 0]
    /\ At(6, 5).rotation = [axis |-> <<1, 0, 0>>, deg |-> 45, yrad |-> 0, right |-> 0]
    /\ At(0, 0).rotation = [axis |-> <<-1, 0, -1>>, deg |-> 45, yrad |-> 0, right |-> 0]
    /\ At(7, 9).rotation = [axis |-> <<1, 0, 2>>, deg |-> 45, yrad |-> 0, right |-> 0]

\* ----------------------------------------------------------------- camera

\* C17: the angle of the camera rig is a rate times the time elapsed: at the
\* end of every tick model_rotation, in degrees, is MODEL_ROTATION_STEP per
\* second times the sum of the delta times, whatever the number of ticks.
C17_RigAngleIsRateTimesElapsed ==
    (app = "challengecameramoving" /\ pc \in {"loop", "done"}) =>
        model_rotation * ONE_SECOND = MODEL_ROTATION_STEP * elapsed

\* C18: the matrix that update_view_proj stores in the camera uniform is the
\* product, in this order, of the clip-space correction, the perspective
\* projection of (fovy, aspect, znear, zfar) and the look-at view of
\* (eye, target, up), of the camera as it is when the tick stores it.
C18_ViewProjIsCorrectionProjectionView ==
    [][TickStep =>
          /\ Len(camera_uniform') = 3
          /\ camera_uniform'[1] = <<"OPENGL_TO_WGPU_MATRIX">>
          /\ camera_uniform'[2] =
                <<"perspective", camera.fovy, camera.aspect, camera.znear, camera.zfar>>
          /\ camera_uniform'[3] = <<"look_at_rh", camera.eye, camera.target, camera.up>>
          /\ camera_buffer' = camera_uniform']_vars

\* A tick has stored the matrix of a camera whose aspect is 4 : 3.
C18_Witness ==
    /\ has_instances(app)
    /\ pc = "events"
    /\ camera.aspect = <<4, 3>>
    /\ camera_uniform = << <<"OPENGL_TO_WGPU_MATRIX">>,
                            <<"perspective", 45, <<4, 3>>, <<1, 10>>, 100>>,
                            <<"look_at_rh", camera.eye, <<0, 0, 0>>, <<0, 1, 0>> >> >>

\* The step in which the Outdated arm of `match self.render()` runs resize.
ResizeStep == pc = "match" /\ result = "Outdated" /\ pc' = "update"

\* C19: resize changes the aspect of the camera, to the ratio of the new
\* config, and nothing else of it: eye, target, up, fovy, znear and zfar are
\* after the resize what they were before it.
C19_ResizeChangesAspectOnly ==
    [][(ResizeStep /\ app = "challengecameramoving") =>
          /\ camera'.aspect = AspectOf(config')
          /\ camera'.eye = camera.eye
          /\ camera'.target = camera.target
          /\ camera'.up = camera.up
          /\ camera'.fovy = camera.fovy
          /\ camera'.znear = camera.znear
          /\ camera'.zfar = camera.zfar
          /\ DOMAIN camera' = DOMAIN camera]_vars

\* A resize has run on a camera that had been moved away from where it
\* started, and the camera is still there.
C19_Witness ==
    /\ app = "challengecameramoving"
    /\ pc = "update"
    /\ result = "Outdated"
    /\ camera.eye # new_camera(config).eye
    /\ camera.aspect = AspectOf(config)
    /\ \E i \in 1 .. Len(ops) : ops[i].op = "configure"

\* --------------------------------------------------------------- pipeline

\* From the recording of a frame to the end of GameLogic::update in the same
\* tick, where change_pipeline is still what it was when the frame was
\* recorded.
FrameRecorded == pc \in {"submit", "present", "match", "update", "events"}

\* C20: challenge1WGPU starts with change_pipeline false; every frame it
\* renders binds one pipeline, challenge_render_pipeline if change_pipeline
\* is true when the frame is recorded and render_pipeline if it is false;
\* and no tick creates a pipeline or a shader module.
C20_PipelineFollowsFlag ==
    app = "challenge1WGPU" =>
        /\ ticks = 0 => ~change_pipeline
        /\ (FrameRecorded /\ OpCount("begin_render_pass") = 1) =>
              /\ OpCount("set_pipeline") = 1
              /\ \A i \in 1 .. Len(ops) :
                    ops[i].op = "set_pipeline" =>
                        /\ change_pipeline => ops[i].args = <<"challenge_render_pipeline">>
                        /\ ~change_pipeline => ops[i].args = <<"render_pipeline">>
        /\ \A i \in 1 .. Len(ops) :
              ops[i].op \notin {"create_render_pipeline", "create_shader_module"}

\* A frame is recorded with the flag true, the Space key having gone down in
\* the poll of the tick before.
C20_Witness ==
    /\ app = "challenge1WGPU"
    /\ pc = "submit"
    /\ change_pipeline
    /\ ticks = 2
    /\ \E i \in 1 .. Len(ops) :
          ops[i].op = "set_pipeline" /\ ops[i].args = <<"challenge_render_pipeline">>

\* ----------------------------------------------------------------- resize

\* What a call of resize made now would leave: the config, the size of the
\* depth texture and the aspect of the camera.
AfterResize ==
    [config |-> resize_config,
     depth  |-> IF has_depth(app)
                THEN Size(resize_depth(resize_config).w, resize_depth(resize_config).h)
                ELSE None,
     aspect |-> IF has_camera(app) THEN resize_camera(resize_config).aspect ELSE None]

\* The same three as they are.
Configured ==
    [config |-> config,
     depth  |-> IF has_depth(app) THEN Size(depth_texture.w, depth_texture.h) ELSE None,
     aspect |-> IF has_camera(app) THEN camera.aspect ELSE None]

\* C21: resize is idempotent: a second call made on the state the first call
\* left would leave the config, the size of the depth texture and the aspect
\* of the camera as they are; and resize runs as often as the loop asks.
C21_ResizeIsIdempotent ==
    [][ResizeStep => (AfterResize = Configured)']_vars

\* The instances variant has run resize in two ticks of one run.
C21_Witness ==
    /\ has_depth(app)
    /\ depth_texture.made = 2
    /\ pc = "update"
    /\ result = "Outdated"
    /\ AfterResize = Configured

\* C22: the resize that answers Outdated configures the surface to the size
\* the drawable has changed to and gives the depth texture that size, so
\* that the surface again has the size of its drawable and the next acquire,
\* the drawable staying as it is, does not answer Outdated.
C22_ResizeTakesDrawableSize ==
    [][ResizeStep =>
          /\ \E i \in 1 .. Len(ops') :
                i > Len(ops) /\ ops'[i].op = "configure" /\ ops'[i].args = <<drawable>>
          /\ config' = drawable
          /\ has_depth(app) => Size(depth_texture'.w, depth_texture'.h) = drawable
          /\ "Outdated" \notin AcquireOutcomes']_vars

\* ---------------------------------------------------------- camera buffer

\* C23: whenever a frame has been recorded, the first frame included, the
\* camera buffer holds the matrix of the camera as it is at that draw, not
\* the identity it was created with nor the matrix of an earlier camera.
C23_CameraBufferFreshAtDraw ==
    (has_camera(app) /\ pc = "submit") =>
        /\ camera_buffer # identity
        /\ camera_buffer = upload_camera(camera, model_rotation)

\* The rotation about Z by no angle is the identity and drops out of a product.
RotationZ(deg) == IF deg = 0 THEN << >> ELSE << <<"from_angle_z", deg>> >>

\* C24: the matrix the camera rig has uploaded at the end of a tick is the
\* clip-space correction, once, times the perspective projection times the
\* look-at view times the rotation about Z by model_rotation; with
\* model_rotation = 0 that is the view-projection of the plain camera.
C24_RigAppliesCorrectionOnce ==
    (app = "challengecameramoving" /\ pc = "loop" /\ ticks > 0) =>
        /\ camera_buffer = camera_uniform
        /\ camera_uniform =
              << <<"OPENGL_TO_WGPU_MATRIX">>,
                 <<"perspective", camera.fovy, camera.aspect, camera.znear, camera.zfar>>,
                 <<"look_at_rh", camera.eye, camera.target, camera.up>> >>
                  \o RotationZ(model_rotation)

\* ----------------------------------------------------------------- events

\* C25: in challenge1WGPU every Space key-down handed over flips
\* change_pipeline, at whichever of the two polls of the tick it is handed
\* over.  Where the only events are KeyDown_Space and Quit, a step that
\* hands over an event and leaves the loop running has handed over
\* KeyDown_Space.
C25_EverySpaceTogglesPipeline ==
    [][(app = "challenge1WGPU" /\ polled' = polled + 1 /\ is_running') =>
          change_pipeline' = ~change_pipeline]_vars

\* -------------------------------------------------------------- DrawModel

\* The five calls made for the k-th mesh gone through.
Block(k) == [j \in 1 .. 5 |-> ops[5 * (k - 1) + j]]

\* Is c the call named name with the arguments args?
IsCall(c, name, args) == c.op = name /\ c.args = args

\* C26: a draw_model_instanced call that returns has made one indexed draw
\* for each mesh of the model, in the order of the mesh list, and for each
\* mesh the calls are, in this order: its vertex buffer set, its index
\* buffer set, the bind group of materials[mesh.material] set at group 0,
\* the camera bind group set at group 1, and draw_indexed over
\* 0..mesh.num_elements with the instance range of the call.  draw_model
\* is that call with the range 0..1, as draw_mesh is draw_mesh_instanced
\* with the range 0..1.
C26_OneIndexedDrawPerMesh ==
    draw_status # "idle" =>
        /\ Len(ops) = 5 * mesh_index
        /\ OpCount("draw_indexed") = mesh_index
        /\ draw_status = "returned" => mesh_index = Len(model.meshes)
        /\ call.fn = "draw_model" => call.instances = <<0, 1>>
        /\ \A k \in 1 .. mesh_index :
              LET mesh == model.meshes[k]
              IN  /\ IsCall(Block(k)[1], "set_vertex_buffer", <<0, mesh.name>>)
                  /\ IsCall(Block(k)[2], "set_index_buffer", <<mesh.name, "Uint32">>)
                  /\ IsCall(Block(k)[3], "set_bind_group",
                            <<0, model.materials[mesh.material + 1].bind_group>>)
                  /\ IsCall(Block(k)[4], "set_bind_group", <<1, CameraBindGroup>>)
                  /\ IsCall(Block(k)[5], "draw_indexed", <<mesh.num_elements, call.instances>>)
                  /\ \A material \in {model.materials[mesh.material + 1]} :
                        /\ Len(draw_mesh(mesh, material, CameraBindGroup)) = 5
                        /\ IsCall(draw_mesh(mesh, material, CameraBindGroup)[5],
                                  "draw_indexed", <<mesh.num_elements, <<0, 1>> >>)
                        /\ \A j \in 1 .. 4 :
                              draw_mesh(mesh, material, CameraBindGroup)[j] = Block(k)[j]

\* A call over a hundred instances has returned from a model of three
\* meshes that share one material and use another.
C26_Witness ==
    /\ draw_status = "returned"
    /\ call = [fn |-> "draw_model_instanced", instances |-> <<0, 100>>]
    /\ Len(model.meshes) = 3
    /\ model.meshes[1].material = 1
    /\ model.meshes[2].material = 0
    /\ model.meshes[3].material = 1
    /\ Len(ops) = 15
    /\ OpCount("draw_indexed") = 3

\* Has the k-th mesh a material index below the number of materials?
InRange(k) == model.meshes[k].material < Len(model.materials)

\* C27: every mesh drawn has been drawn with materials[mesh.material]; a
\* call that comes to a mesh whose material index is not below the number
\* of materials fails at that mesh: the meshes before it have been drawn,
\* that mesh and the meshes after it are not drawn, then or later, and the
\* call does not return.
C27_OutOfRangeMaterialStopsTheCall ==
    /\ [](draw_status # "idle" =>
            /\ \A k \in 1 .. mesh_index :
                  /\ InRange(k)
                  /\ IsCall(Block(k)[3], "set_bind_group",
                            <<0, model.materials[model.meshes[k].material + 1].bind_group>>)
            /\ draw_status = "panicked" =>
                  /\ mesh_index < Len(model.meshes)
                  /\ ~InRange(mesh_index + 1)
                  /\ OpCount("draw_indexed") = mesh_index
                  /\ Len(ops) = 5 * mesh_index
            /\ draw_status = "returned" => \A k \in 1 .. Len(model.meshes) : InRange(k))
    /\ [][(draw_status = "running" /\ mesh_index < Len(model.meshes)
              /\ ~InRange(mesh_index + 1)) =>
             (draw_status' = "panicked" /\ ops' = ops)]_vars
    /\ [][draw_status = "panicked" => (draw_status' = "panicked" /\ ops' = ops)]_vars

\* The call has failed at the second of three meshes, the first drawn.
C27_Witness ==
    /\ draw_status = "panicked"
    /\ Len(model.meshes) = 3
    /\ mesh_index = 1
    /\ Len(model.materials) = 1
    /\ model.meshes[2].material = 1
    /\ model.meshes[3].material = 0
    /\ OpCount("draw_indexed") = 1

\* ------------------------------------------------------------ fps counter

\* The step of a tick in which GameLogic::update runs display_framerate.
PlayStep == pc = "update" /\ pc' = "events"

\* What C28 says of the counters in both readings: a tick counts one frame
\* and adds its delta time; when the timer has reached a second, fps takes
\* the frames counted, the count starts again and a second comes off the
\* timer; fps changes in no other step; the text is "FPS: " and fps.
CountsFrames ==
    /\ PlayStep =>
          LET timer == frame_timer + delta_time
          IN  /\ IF timer >= ONE_SECOND
                 THEN /\ fps' = frame_count + 1
                      /\ frame_count' = 0
                      /\ frame_timer' = timer - ONE_SECOND
                 ELSE /\ fps' = fps
                      /\ frame_count' = frame_count + 1
                      /\ frame_timer' = timer
              /\ fps_text' = <<"FPS: ", fps'>>
    /\ ~PlayStep => UNCHANGED <<fps, frame_count, frame_timer, fps_text>>

Flags == {"forward", "left", "backwards", "right"}

KeyDown == [forward |-> "KeyDown_W", left |-> "KeyDown_A",
            backwards |-> "KeyDown_S", right |-> "KeyDown_D"]

KeyUp == [forward |-> "KeyUp_W", left |-> "KeyUp_A",
          backwards |-> "KeyUp_S", right |-> "KeyUp_D"]

\* The step in which GameLogic::event_handler handles the event polled_event'.
KeyStep == pc = "events" /\ polled' = polled + 1

\* C29: the four flags start false; event_handler sets a flag at the
\* key-down of its key, clears it at the key-up of its key and leaves it as
\* it is at every other event, so that a flag is true exactly when the last
\* event handled for its key was a key-down; no event of the four keys
\* changes is_running, and nothing else writes the flags.
C29_FlagsFollowTheirKeys ==
    /\ [](ticks = 0 => \A f \in Flags : ~controller[f])
    /\ [][KeyStep =>
             /\ \A f \in Flags :
                   /\ polled_event' = KeyDown[f] => controller'[f]
                   /\ polled_event' = KeyUp[f] => ~controller'[f]
                   /\ polled_event' \notin {KeyDown[f], KeyUp[f]} =>
                         controller'[f] = controller[f]
             /\ (\E f \in Flags : polled_event' \in {KeyDown[f], KeyUp[f]}) =>
                   is_running' = is_running]_vars
    /\ [][~KeyStep => controller' = controller]_vars

\* W went down and came up again in one poll while S, down since the tick
\* before, is still down.
C29_Witness ==
    /\ pc = "events"
    /\ ticks = 2
    /\ polled = 2
    /\ polled_event = "KeyUp_W"
    /\ controller = [forward |-> FALSE, backwards |-> TRUE, left |-> FALSE, right |-> FALSE]
    /\ is_running

\* The distance between the eye and the target, in thousandths.
Distance(cam) == Abs(cam.eye.r)

\* C30: GameLogic::update brings the eye nearer to the target only in a
\* tick in which forward is set and the eye is, as the tick starts, farther
\* from the target than speed; with forward alone set and the eye no
\* farther than speed the eye stays where it is; backwards alone takes the
\* eye speed * delta_time farther off whatever the distance; and the
\* target and the up vector are never written.
C30_ForwardGuardedBySpeed ==
    [][(PlayStep /\ has_camera(app)) =>
          LET only_forward == controller.forward /\ ~controller.backwards
                                  /\ ~controller.left /\ ~controller.right
              only_backwards == controller.backwards /\ ~controller.forward
                                    /\ ~controller.left /\ ~controller.right
          IN  /\ camera'.target = camera.target
              /\ camera'.up = camera.up
              /\ Distance(camera') < Distance(camera) =>
                    (controller.forward /\ Distance(camera) > speed * 1000)
              /\ (only_forward /\ Distance(camera) <= speed * 1000) =>
                    camera'.eye = camera.eye
              /\ (only_forward /\ Distance(camera) > speed * 1000) =>
                    Distance(camera') = Distance(camera) - speed * delta_time
              /\ only_backwards =>
                    /\ Distance(camera') = Distance(camera) + speed * delta_time
                    /\ camera'.eye.turn = camera.eye.turn]_vars

\* S took the eye a second's way off, and W has brought it three tenths of
\* a second's way back.
C30_Witness ==
    /\ has_camera(app)
    /\ pc = "events"
    /\ ticks = 3
    /\ delta_time = 300
    /\ controller.forward
    /\ ~controller.backwards
    /\ camera.eye.r = 2236 + speed * 1000 - speed * 300


====
